---- MODULE Spec2Model ----
(***************************************************************************)
(* The signal registry of emergence_lib (src/emergence_lib/src/signals.rs) *)
(* and its three systems emit_signals, diffuse_signals, degrade_signals.   *)
(*                                                                         *)
(* A SignalStrength wraps an f32.  It is modelled by the real number the   *)
(* f32 stands for, as an exact rational [n, d] in lowest terms, so that    *)
(* 0.1 and 0.9 are one tenth and nine tenths.  The rounding of f32, its    *)
(* infinities and NaN are not part of the model.                           *)
(***************************************************************************)
EXTENDS Integers, Sequences, FiniteSets, TLC

(***************************************************************************)
(* Bounds of the model.                                                    *)
(***************************************************************************)
\* number of PreUpdate stages (ticks) a behaviour runs
MaxTicks == 2
\* number of (SignalType, SignalStrength) entries the emitters of a map hold
MaxSignals == 2

(***************************************************************************)
(* Exact rationals.                                                        *)
(***************************************************************************)
RECURSIVE GCD(_, _)
GCD(a, b) == IF b = 0 THEN a ELSE GCD(b, a % b)

Abs(x) == IF x < 0 THEN 0 - x ELSE x

\* the rational n/d (d > 0) in lowest terms
Rat(n, d) ==
    LET g == GCD(Abs(n), d)
    IN  [n |-> n \div g, d |-> d \div g]

LCM(a, b) == (a \div GCD(a, b)) * b

\* numerator of x over the denominator l (a multiple of x.d)
Over(x, l) == x.n * (l \div x.d)

RatAdd(x, y) == LET l == LCM(x.d, y.d) IN Rat(Over(x, l) + Over(y, l), l)
RatSub(x, y) == LET l == LCM(x.d, y.d) IN Rat(Over(x, l) - Over(y, l), l)
RatMul(x, y) == Rat(x.n * y.n, x.d * y.d)
RatLess(x, y) == LET l == LCM(x.d, y.d) IN Over(x, l) < Over(y, l)
RatMax(x, y) == IF RatLess(x, y) THEN y ELSE x

\* the f32 literals 0. and 1.
F0 == Rat(0, 1)
F1 == Rat(1, 1)

(***************************************************************************)
(* SignalStrength                                                          *)
(***************************************************************************)
ZERO == F0

\* new without its floor at zero
newUnclamped(value) == value

new(value) == RatMax(value, F0)

Add(self, rhs) == RatAdd(self, rhs)

Sub(self, rhs) == RatMax(RatSub(self, rhs), F0)

Mul(self, rhs) == RatMul(self, rhs)

(***************************************************************************)
(* SignalType, Goal                                                        *)
(***************************************************************************)
ItemId == {"X", "Y"}
StructureId == {"S"}

SignalType ==
    ({"Push", "Pull", "Contains"} \X ItemId) \cup ({"Work"} \X StructureId)

Goal ==
    {<<"Wander">>} \cup ({"Pickup", "DropOff"} \X ItemId)
        \cup ({"Work"} \X StructureId)

(***************************************************************************)
(* TilePos and MapGeometry: a rhombus of hexagonal tiles in axial          *)
(* coordinates.  neighbors lists the tiles of the map adjacent to a tile,  *)
(* empty_neighbors those of them no structure occupies.                    *)
(***************************************************************************)
TilePos == (0 .. 1) \X (0 .. 1)

HexDirections ==
    << <<1, 0>>, <<1, -1>>, <<0, -1>>, <<-1, 0>>, <<-1, 1>>, <<0, 1>> >>

\* the maps a behaviour may run on: which tiles are occupied
OccupiedChoices == { {}, {<<1, 0>>} }

InMap(pos) == pos \in TilePos

neighbors(pos) ==
    SelectSeq([i \in 1 .. Len(HexDirections) |->
                  <<pos[1] + HexDirections[i][1], pos[2] + HexDirections[i][2]>>],
              InMap)

RECURSIVE Filter(_, _)
Filter(seq, keep) ==
    IF seq = <<>> THEN <<>>
    ELSE (IF Head(seq) \in keep THEN <<Head(seq)>> ELSE <<>>)
             \o Filter(Tail(seq), keep)

empty_neighbors(pos, occ) == Filter(neighbors(pos), TilePos \ occ)

Range(seq) == {seq[i] : i \in DOMAIN seq}

(***************************************************************************)
(* HashMap and SignalMap                                                   *)
(***************************************************************************)
EmptyMap == [k \in {} |-> ZERO]

Insert(m, k, v) == [x \in (DOMAIN m) \cup {k} |-> IF x = k THEN v ELSE m[x]]

\* some order in which a HashMap hands out its keys
RECURSIVE Keys(_)
Keys(S) ==
    IF S = {} THEN <<>>
    ELSE LET k == CHOOSE x \in S : TRUE IN <<k>> \o Keys(S \ {k})

\* get that fills a missing value with one
SignalMap_get_one(map, tile_pos) ==
    IF tile_pos \in DOMAIN map THEN map[tile_pos] ELSE F1

SignalMap_get(map, tile_pos) ==
    IF tile_pos \in DOMAIN map THEN map[tile_pos] ELSE ZERO

\* add_signal that forgets the strength the tile held
SignalMap_add_signal_overwrite(map, tile_pos, signal_strength) ==
    Insert(map, tile_pos, signal_strength)

SignalMap_add_signal(map, tile_pos, signal_strength) ==
    Insert(map, tile_pos, Add(SignalMap_get(map, tile_pos), signal_strength))

SignalMap_subtract_signal(map, tile_pos, signal_strength) ==
    Insert(map, tile_pos, Sub(SignalMap_get(map, tile_pos), signal_strength))

(***************************************************************************)
(* Signals                                                                 *)
(***************************************************************************)
Signals_get(maps, signal_type, tile_pos) ==
    IF signal_type \in DOMAIN maps
    THEN SignalMap_get(maps[signal_type], tile_pos)
    ELSE ZERO

\* add_signal that makes no map for a strength of zero
Signals_add_signal_above_zero(maps, signal_type, tile_pos, signal_strength) ==
    IF signal_type \in DOMAIN maps
    THEN [maps EXCEPT ![signal_type] =
              SignalMap_add_signal(@, tile_pos, signal_strength)]
    ELSE IF signal_strength = ZERO THEN maps
    ELSE Insert(maps, signal_type,
                SignalMap_add_signal(EmptyMap, tile_pos, signal_strength))

Signals_add_signal(maps, signal_type, tile_pos, signal_strength) ==
    IF signal_type \in DOMAIN maps
    THEN [maps EXCEPT ![signal_type] =
              SignalMap_add_signal(@, tile_pos, signal_strength)]
    ELSE Insert(maps, signal_type,
                SignalMap_add_signal(EmptyMap, tile_pos, signal_strength))

\* the loop of all_signals_at_position over the keys of the registry
RECURSIVE CollectSignals(_, _, _, _)
CollectSignals(maps, tile_pos, signal_types, all_signals) ==
    IF signal_types = <<>> THEN all_signals
    ELSE LET signal_type == Head(signal_types)
             strength == Signals_get(maps, signal_type, tile_pos)
         IN  CollectSignals(maps, tile_pos, Tail(signal_types),
                            Insert(all_signals, signal_type, strength))

\* a snapshot that leaves out the types whose strength at the tile is zero
all_signals_above_zero(maps, tile_pos) ==
    [signal_type \in {t \in DOMAIN maps : Signals_get(maps, t, tile_pos) # ZERO}
        |-> Signals_get(maps, signal_type, tile_pos)]

\* LocalSignals { map: all_signals }
all_signals_at_position(maps, tile_pos) ==
    CollectSignals(maps, tile_pos, Keys(DOMAIN maps), [t \in {} |-> ZERO])

\* matches!(signal_type, SignalType::Contains(_))
matches_Contains(signal_type) == signal_type[1] = "Contains"

\* the filter of goal_relevant_signals over the entries of a snapshot
RECURSIVE FilterSignals(_, _)
FilterSignals(map, signal_types) ==
    IF signal_types = <<>> THEN {}
    ELSE LET signal_type == Head(signal_types)
         IN  (IF ~matches_Contains(signal_type)
              THEN {<<signal_type, map[signal_type]>>} ELSE {})
                 \cup FilterSignals(map, Tail(signal_types))

\* goal_relevant_signals that yields every entry
goal_relevant_signals_unfiltered(self) ==
    {<<signal_type, self[signal_type]>> : signal_type \in DOMAIN self}

\* the entries the iterator of goal_relevant_signals yields
goal_relevant_signals(self) == FilterSignals(self, Keys(DOMAIN self))

\* the strengths of signal_type at tile_pos and at its neighbours
RECURSIVE InsertAll(_, _, _, _)
InsertAll(maps, signal_type, tiles, signal_strength_map) ==
    IF tiles = <<>> THEN signal_strength_map
    ELSE InsertAll(maps, signal_type, Tail(tiles),
                   Insert(signal_strength_map, Head(tiles),
                          Signals_get(maps, signal_type, Head(tiles))))

neighboring_signals(maps, signal_type, tile_pos) ==
    InsertAll(maps, signal_type, neighbors(tile_pos),
              Insert(EmptyMap, tile_pos, Signals_get(maps, signal_type, tile_pos)))

\* Goal::Pickup: the Contains strengths are added onto the Push strengths
RECURSIVE MergeContains(_, _, _)
MergeContains(total_signals, contains_signals, tiles) ==
    IF tiles = <<>> THEN total_signals
    ELSE LET tile_pos == Head(tiles)
             signal_strength == contains_signals[tile_pos]
         IN  MergeContains(
                 IF tile_pos \in DOMAIN total_signals
                 THEN [total_signals EXCEPT ![tile_pos] = Add(@, signal_strength)]
                 ELSE Insert(total_signals, tile_pos, signal_strength),
                 contains_signals, Tail(tiles))

\* Pickup that follows the Push signal alone
PickupPushOnly(maps, item_id, tile_pos) ==
    neighboring_signals(maps, <<"Push", item_id>>, tile_pos)

PickupSignals(maps, item_id, tile_pos) ==
    LET push_signals == neighboring_signals(maps, <<"Push", item_id>>, tile_pos)
        contains_signals ==
            neighboring_signals(maps, <<"Contains", item_id>>, tile_pos)
    IN  MergeContains(push_signals, contains_signals, Keys(DOMAIN contains_signals))

\* the signals a goal other than Wander follows
GoalSignals(maps, goal, tile_pos) ==
    CASE goal[1] = "Pickup" -> PickupSignals(maps, goal[2], tile_pos)
      [] goal[1] = "DropOff" ->
             neighboring_signals(maps, <<"Pull", goal[2]>>, tile_pos)
      [] goal[1] = "Work" ->
             neighboring_signals(maps, <<"Work", goal[2]>>, tile_pos)

\* Option<TilePos>
None == <<>>
Some(tile_pos) == <<tile_pos>>

\* the loop over possible_tiles, a tile replacing the best choice when its score
\* is at least the best score
RECURSIVE BestChoiceAtLeast(_, _, _, _)
BestChoiceAtLeast(possible_tiles, signals, best_choice, best_score) ==
    IF possible_tiles = <<>> THEN best_choice
    ELSE LET possible_tile == Head(possible_tiles)
         IN  IF possible_tile \in DOMAIN signals
                 /\ ~RatLess(signals[possible_tile], best_score)
             THEN BestChoiceAtLeast(Tail(possible_tiles), signals,
                                    Some(possible_tile), signals[possible_tile])
             ELSE BestChoiceAtLeast(Tail(possible_tiles), signals,
                                    best_choice, best_score)

\* the loop over possible_tiles: a tile replaces the best choice when its score
\* is greater than the best score
RECURSIVE BestChoice(_, _, _, _)
BestChoice(possible_tiles, signals, best_choice, best_score) ==
    IF possible_tiles = <<>> THEN best_choice
    ELSE LET possible_tile == Head(possible_tiles)
         IN  IF possible_tile \in DOMAIN signals
                 /\ RatLess(best_score, signals[possible_tile])
             THEN BestChoice(Tail(possible_tiles), signals,
                             Some(possible_tile), signals[possible_tile])
             ELSE BestChoice(Tail(possible_tiles), signals,
                             best_choice, best_score)

\* upstream that looks at every neighbour, empty or not
upstreamAnyNeighbor(maps, tile_pos, goal, occ) ==
    IF goal[1] = "Wander" THEN None
    ELSE BestChoice(neighbors(tile_pos),
                    GoalSignals(maps, goal, tile_pos), None, ZERO)

\* upstream that goes through the possible tiles from the last to the first
upstreamFromLast(maps, tile_pos, goal, occ) ==
    IF goal[1] = "Wander" THEN None
    ELSE LET possible_tiles == empty_neighbors(tile_pos, occ)
             n == Len(possible_tiles)
         IN  BestChoice([i \in 1 .. n |-> possible_tiles[n + 1 - i]],
                        GoalSignals(maps, goal, tile_pos), None, ZERO)

upstream(maps, tile_pos, goal, occ) ==
    IF goal[1] = "Wander" THEN None
    ELSE BestChoice(empty_neighbors(tile_pos, occ),
                    GoalSignals(maps, goal, tile_pos), None, ZERO)

(***************************************************************************)
(* Emitter and emit_signals                                                *)
(***************************************************************************)
\* the f32 values emitters are built from, through SignalStrength::new
RawValues == {Rat(-1, 1), Rat(1, 1)}

\* the objects of a behaviour stand on these tiles and emit signals about these
\* items and structures
EmitterTiles == {<<0, 0>>, <<1, 0>>}
EmittingItems == {"X"}
EmittingStructures == {"S"}

EmittedTypes ==
    ({"Push", "Pull", "Contains"} \X EmittingItems) \cup ({"Work"} \X EmittingStructures)

EmitterEntry == {<<t, new(v)>> : t \in EmittedTypes, v \in RawValues}

\* the signal lists of n entries
RECURSIVE SignalLists(_)
SignalLists(n) ==
    IF n = 0 THEN {<<>>}
    ELSE {<<e>> \o l : e \in EmitterEntry, l \in SignalLists(n - 1)}

Emitters(k) ==
    {[tile_pos |-> p, signals |-> l] : p \in EmitterTiles, l \in SignalLists(k)}

\* the objects a map may hold: the (TilePos, Emitter) pairs of emitter_query, with
\* at most budget entries in all
RECURSIVE Worlds(_)
Worlds(budget) ==
    {{}} \cup
    UNION {{w \cup {e} : e \in Emitters(k), w \in Worlds(budget - k)} :
           k \in 1 .. budget}

\* the entries of the emitters of a world
RECURSIVE Entries(_)
Entries(world) ==
    IF world = {} THEN 0
    ELSE LET e == CHOOSE x \in world : TRUE
         IN  Len(e.signals) + Entries(world \ {e})

\* an object that emits the first signal of its list only
EmitOneFirstOnly(maps, tile_pos, signals) ==
    IF signals = <<>> THEN maps
    ELSE Signals_add_signal(maps, Head(signals)[1], tile_pos, Head(signals)[2])

RECURSIVE EmitOne(_, _, _)
EmitOne(maps, tile_pos, signals) ==
    IF signals = <<>> THEN maps
    ELSE EmitOne(Signals_add_signal(maps, Head(signals)[1], tile_pos,
                                    Head(signals)[2]),
                 tile_pos, Tail(signals))

RECURSIVE EmitAll(_, _)
EmitAll(maps, query) ==
    IF query = <<>> THEN maps
    ELSE EmitAll(EmitOne(maps, Head(query).tile_pos, Head(query).signals),
                 Tail(query))

(***************************************************************************)
(* diffuse_signals                                                         *)
(***************************************************************************)
\* a fraction above one sixth
DIFFUSION_FRACTION_ABOVE_SIXTH == Rat(1, 5)

DIFFUSION_FRACTION == Rat(1, 10)

\* pending_additions and pending_removals after clear()
NoPending == [t \in {} |-> EmptyMap]

\* the inner loop: one removal and one addition for every empty neighbour
RECURSIVE SendToNeighbors(_, _, _, _)
SendToNeighbors(staged, occupied_tile, amount, neighboring_tiles) ==
    IF neighboring_tiles = <<>> THEN staged
    ELSE SendToNeighbors(
             [removal_map |->
                  SignalMap_add_signal(staged.removal_map, occupied_tile, amount),
              addition_map |->
                  SignalMap_add_signal(staged.addition_map,
                                       Head(neighboring_tiles), amount)],
             occupied_tile, amount, Tail(neighboring_tiles))

\* the loop over the tiles of one map, a tile sending a fraction of what it
\* held and of what the tiles before it sent to it
RECURSIVE StageMapInPlace(_, _, _, _)
StageMapInPlace(staged, original_map, tiles, occ) ==
    IF tiles = <<>> THEN staged
    ELSE LET occupied_tile == Head(tiles)
             amount_to_send_to_each_neighbor ==
                 Mul(Add(original_map[occupied_tile],
                         SignalMap_get(staged.addition_map, occupied_tile)),
                     DIFFUSION_FRACTION)
         IN  StageMapInPlace(SendToNeighbors(staged, occupied_tile,
                                             amount_to_send_to_each_neighbor,
                                             empty_neighbors(occupied_tile, occ)),
                             original_map, Tail(tiles), occ)

\* the loop over the tiles of one map
RECURSIVE StageMap(_, _, _, _)
StageMap(staged, original_map, tiles, occ) ==
    IF tiles = <<>> THEN staged
    ELSE LET occupied_tile == Head(tiles)
             amount_to_send_to_each_neighbor ==
                 Mul(original_map[occupied_tile], DIFFUSION_FRACTION)
         IN  StageMap(SendToNeighbors(staged, occupied_tile,
                                      amount_to_send_to_each_neighbor,
                                      empty_neighbors(occupied_tile, occ)),
                      original_map, Tail(tiles), occ)

\* a staging loop that sends to every neighbour, occupied or not
StagedToAllNeighbors(original_map, occ) ==
    StageMap([removal_map |-> EmptyMap, addition_map |-> EmptyMap],
             original_map, Keys(DOMAIN original_map), {})

Staged(original_map, occ) ==
    StageMap([removal_map |-> EmptyMap, addition_map |-> EmptyMap],
             original_map, Keys(DOMAIN original_map), occ)

PendingAdditions(maps, occ) ==
    [t \in DOMAIN maps |-> Staged(maps[t], occ).addition_map]

PendingRemovals(maps, occ) ==
    [t \in DOMAIN maps |-> Staged(maps[t], occ).removal_map]

RECURSIVE SubtractAll(_, _, _)
SubtractAll(original_map, removal_map, tiles) ==
    IF tiles = <<>> THEN original_map
    ELSE SubtractAll(SignalMap_subtract_signal(original_map, Head(tiles),
                                               removal_map[Head(tiles)]),
                     removal_map, Tail(tiles))

RECURSIVE AddAll(_, _, _)
AddAll(original_map, addition_map, tiles) ==
    IF tiles = <<>> THEN original_map
    ELSE AddAll(SignalMap_add_signal(original_map, Head(tiles),
                                     addition_map[Head(tiles)]),
                addition_map, Tail(tiles))

\* a second loop that reads the removals from pending_removals
CommitWithRemovals(original_map, additions, removals) ==
    LET addition_map == additions
        removal_map == removals
    IN  AddAll(SubtractAll(original_map, removal_map, Keys(DOMAIN removal_map)),
               addition_map, Keys(DOMAIN addition_map))

\* the second loop: both maps are read from pending_additions
Commit(original_map, additions, removals) ==
    LET addition_map == additions
        removal_map == additions
    IN  AddAll(SubtractAll(original_map, removal_map, Keys(DOMAIN removal_map)),
               addition_map, Keys(DOMAIN addition_map))

Diffused(maps, occ) ==
    [t \in DOMAIN maps |->
        Commit(maps[t], PendingAdditions(maps, occ)[t], PendingRemovals(maps, occ)[t])]

\* the keys of a HashMap in the order a sequence of all keys gives them
InOrder(order, keys) == Filter(order, keys)

\* the first loop of diffuse_signals, over the types in the order signal_types
\* and over the tiles of every map in the order tile_order
RECURSIVE StageTypes(_, _, _, _, _)
StageTypes(pending, maps, signal_types, occ, tile_order) ==
    IF signal_types = <<>> THEN pending
    ELSE LET signal_type == Head(signal_types)
             original_map == maps[signal_type]
             staged == StageMap([removal_map |-> EmptyMap,
                                 addition_map |-> EmptyMap],
                                original_map,
                                InOrder(tile_order, DOMAIN original_map), occ)
         IN  StageTypes(
                 [additions |->
                      Insert(pending.additions, signal_type, staged.addition_map),
                  removals |->
                      Insert(pending.removals, signal_type, staged.removal_map)],
                 maps, Tail(signal_types), occ, tile_order)

\* the second loop of diffuse_signals, in the same orders
RECURSIVE CommitTypes(_, _, _, _)
CommitTypes(maps, pending, signal_types, tile_order) ==
    IF signal_types = <<>> THEN maps
    ELSE LET signal_type == Head(signal_types)
             addition_map == pending.additions[signal_type]
             removal_map == pending.additions[signal_type]
         IN  CommitTypes(
                 [maps EXCEPT ![signal_type] =
                     AddAll(SubtractAll(@, removal_map,
                                        InOrder(tile_order, DOMAIN removal_map)),
                            addition_map,
                            InOrder(tile_order, DOMAIN addition_map))],
                 pending, Tail(signal_types), tile_order)

\* diffuse_signals when the HashMaps hand out their keys in these orders
DiffusedInOrder(maps, occ, signal_types, tile_order) ==
    CommitTypes(maps,
                StageTypes([additions |-> NoPending, removals |-> NoPending],
                           maps, signal_types, occ, tile_order),
                signal_types, tile_order)

(***************************************************************************)
(* degrade_signals                                                         *)
(***************************************************************************)
DEGRADATION_FRACTION == Rat(1, 10)

\* a pass that drops the entries it brings to zero
DegradedPruning(maps) ==
    [t \in DOMAIN maps |->
        [p \in {q \in DOMAIN maps[t] : maps[t][q] # ZERO} |->
            Mul(maps[t][p], RatSub(F1, DEGRADATION_FRACTION))]]

\* a pass that keeps the fraction that was to decay
DegradedByFraction(maps) ==
    [t \in DOMAIN maps |->
        [p \in DOMAIN maps[t] |-> Mul(maps[t][p], DEGRADATION_FRACTION)]]

Degraded(maps) ==
    [t \in DOMAIN maps |->
        [p \in DOMAIN maps[t] |->
            Mul(maps[t][p], RatSub(F1, DEGRADATION_FRACTION))]]

(***************************************************************************)
(* SignalsPlugin: the three systems are added to CoreStage::PreUpdate,     *)
(* emit_signals before diffuse_signals, diffuse_signals before             *)
(* degrade_signals.  A stage runs each of its systems once, a system only  *)
(* after those ordered before it; the three systems all take               *)
(* ResMut<Signals>, so no two of them run at the same time.                *)
(***************************************************************************)
Systems == {"emit_signals", "diffuse_signals", "degrade_signals"}

\* the plugin without emit_signals.before(diffuse_signals)
BeforeWithoutEmit == {<<"diffuse_signals", "degrade_signals">>}

Before ==
    {<<"emit_signals", "diffuse_signals">>, <<"diffuse_signals", "degrade_signals">>}

VARIABLES
    maps,               \* Signals.maps: SignalType -> SignalMap
    occupied,           \* MapGeometry: the tiles that are not empty
    pending_additions,  \* Local scratch space of diffuse_signals
    pending_removals,   \* Local scratch space of diffuse_signals
    log,                \* the systems run in this stage, each with the
                        \* registry it read and the registry it left
    tick,               \* the number of the stage being run
    emitters,           \* the (TilePos, Emitter) pairs of the objects of the map
    written,            \* the (SignalType, TilePos) pairs a strength was
                        \* inserted for
    written_above_zero  \* the SignalTypes add_signal was called for with a
                        \* strength other than zero

vars ==
    <<maps, occupied, pending_additions, pending_removals, log, tick, emitters,
      written, written_above_zero>>

NoMaps == [t \in {} |-> EmptyMap]

Init ==
    /\ maps = NoMaps
    /\ occupied \in OccupiedChoices
    /\ pending_additions = NoMaps
    /\ pending_removals = NoMaps
    /\ log = <<>>
    /\ tick = 1
    /\ emitters \in {w \in Worlds(MaxSignals) : Entries(w) <= MaxSignals}
    /\ written = {}
    /\ written_above_zero = {}

StageOver == Len(log) = Cardinality(Systems)

\* the systems that have run in the stage the next system runs in
Ran == IF StageOver THEN {} ELSE {log[i].system : i \in DOMAIN log}

Ready(system) ==
    /\ system \notin Ran
    /\ \A o \in Before : o[2] = system => o[1] \in Ran
    /\ StageOver => tick < MaxTicks

\* system runs and leaves the registry new_maps
Run(system, new_maps) ==
    /\ Ready(system)
    /\ maps' = new_maps
    /\ log' = Append(IF StageOver THEN <<>> ELSE log,
                     [system |-> system, before |-> maps, after |-> new_maps])
    /\ tick' = IF StageOver THEN tick + 1 ELSE tick
    /\ UNCHANGED <<occupied, emitters>>

\* the pairs emit_signals calls add_signal for
EmittedPairs(world) ==
    UNION {{<<e.signals[i][1], e.tile_pos>> : i \in DOMAIN e.signals} : e \in world}

\* the types emit_signals calls add_signal for with a strength other than zero
EmittedAboveZero(world) ==
    UNION {{e.signals[i][1] : i \in {j \in DOMAIN e.signals : e.signals[j][2] # ZERO}}
              : e \in world}

emit_signals ==
    /\ Run("emit_signals", EmitAll(maps, Keys(emitters)))
    /\ written' = written \cup EmittedPairs(emitters)
    /\ written_above_zero' = written_above_zero \cup EmittedAboveZero(emitters)
    /\ UNCHANGED <<pending_additions, pending_removals>>

\* the pairs the second loop of diffuse_signals inserts a strength for
CommittedPairs(additions) ==
    UNION {{<<t, p>> : p \in DOMAIN additions[t]} : t \in DOMAIN additions}

\* the types the second loop of diffuse_signals adds a strength other than
\* zero for
CommittedAboveZero(additions) ==
    {t \in DOMAIN additions : \E p \in DOMAIN additions[t] : additions[t][p] # ZERO}

diffuse_signals ==
    /\ Run("diffuse_signals", Diffused(maps, occupied))
    /\ written' = written \cup CommittedPairs(PendingAdditions(maps, occupied))
    /\ written_above_zero' =
           written_above_zero
               \cup CommittedAboveZero(PendingAdditions(maps, occupied))
    /\ pending_additions' = PendingAdditions(maps, occupied)
    /\ pending_removals' = PendingRemovals(maps, occupied)

degrade_signals ==
    /\ Run("degrade_signals", Degraded(maps))
    /\ UNCHANGED <<pending_additions, pending_removals, written,
                    written_above_zero>>

Next == emit_signals \/ diffuse_signals \/ degrade_signals

Spec == Init /\ [][Next]_vars

\* the behaviours in which the objects emit Push and Pull signals of one item
\* only; diffuse_signals, emit_signals and upstream treat every type alike
TwoTypes == {<<"Push", "X">>, <<"Pull", "X">>}

InitTwoTypes ==
    /\ Init
    /\ \A e \in emitters : \A i \in DOMAIN e.signals : e.signals[i][1] \in TwoTypes

SpecTwoTypes == InitTwoTypes /\ [][Next]_vars

(***************************************************************************)
(* Properties                                                              *)
(***************************************************************************)
\* the strengths the registry stores
Stored(registry) ==
    {registry[t][p] : <<t, p>> \in
        UNION {{<<t, p>> : p \in DOMAIN registry[t]} : t \in DOMAIN registry}}

\* the last system run, once one has run
Last == log[Len(log)]
JustRan(system) == log # <<>> /\ Last.system = system

Tenth == Rat(1, 10)

\* C1: every strength stored in the registry, and so every value get returns,
\* is at least zero, whatever emit_signals, diffuse_signals (with its
\* subtract_signal calls) and degrade_signals have done, and a subtract_signal
\* of an emitter's strength from any entry leaves it at least zero.
NonNegative ==
    /\ \A s \in Stored(maps) : s.n >= 0
    /\ \A t \in SignalType, p \in TilePos : Signals_get(maps, t, p).n >= 0
    /\ \A t \in DOMAIN maps : \A p \in DOMAIN maps[t] :
           \A v \in RawValues :
               SignalMap_subtract_signal(maps[t], p, new(v))[p].n >= 0

\* an emitter was built from a negative value, a whole stage has run and left a
\* zero and a positive strength, and a subtraction of diffuse_signals took more
\* than the tile held
NonNegativeWitness ==
    /\ StageOver
    /\ \E e \in emitters : \E i \in DOMAIN e.signals : e.signals[i][2] = ZERO
    /\ \E s \in Stored(maps) : s = ZERO
    /\ \E s \in Stored(maps) : s.n > 0
    /\ \E t \in DOMAIN pending_additions : \E p \in DOMAIN pending_additions[t] :
           RatLess(SignalMap_get(log[2].before[t], p), pending_additions[t][p])

\* the empty neighbours of a tile, as a set, and their number
EmptyAround(p) == Range(empty_neighbors(p, occupied))
K(p) == Len(empty_neighbors(p, occupied))

\* what the tiles of a map send to tile p in one pass: a tenth of the strength of
\* every tile that lists p as an empty neighbour
RECURSIVE Received(_, _, _)
Received(map, sources, p) ==
    IF sources = {} THEN F0
    ELSE LET src == CHOOSE x \in sources : TRUE
         IN  RatAdd(IF p \in EmptyAround(src) THEN RatMul(map[src], Tenth) ELSE F0,
                    Received(map, sources \ {src}, p))

\* what a tile holding v sends in one pass: a tenth of v to each empty neighbour
Sent(v, p) == RatMul(Rat(K(p), 1), RatMul(v, Tenth))

\* C2: after a diffuse_signals pass a tile that held v, has k empty neighbours
\* and received nothing in the pass holds v - k * v * 0.1.
DiffusionKeepsRemainder ==
    JustRan("diffuse_signals") =>
        \A t \in DOMAIN Last.before : \A p \in DOMAIN Last.before[t] :
            LET v == Last.before[t][p]
            IN  Received(Last.before[t], DOMAIN Last.before[t], p) = F0
                    => maps[t][p] = RatSub(v, Sent(v, p))

\* C3: after a diffuse_signals pass every tile holds what it held, less what it
\* sent, plus a tenth of the strength of every tile that lists it as an empty
\* neighbour.
DiffusionTransfers ==
    JustRan("diffuse_signals") =>
        \A t \in DOMAIN Last.before : \A p \in TilePos :
            LET v == SignalMap_get(Last.before[t], p)
            IN  SignalMap_get(maps[t], p) =
                    RatAdd(RatSub(v, Sent(v, p)),
                           Received(Last.before[t], DOMAIN Last.before[t], p))

\* C4: in every stage the systems run once each, emit_signals, then
\* diffuse_signals, then degrade_signals, each reading the registry the one
\* before it left.
Pipeline == <<"emit_signals", "diffuse_signals", "degrade_signals">>

PipelineOrder ==
    /\ Len(log) <= Len(Pipeline)
    /\ \A i \in DOMAIN log : log[i].system = Pipeline[i]
    /\ \A i \in DOMAIN log : i > 1 => log[i].before = log[i - 1].after
    /\ log # <<>> => Last.after = maps

\* a second stage has run to its end and each system changed the registry
PipelineOrderWitness ==
    /\ tick = MaxTicks
    /\ StageOver
    /\ \A i \in DOMAIN log : log[i].before # log[i].after

\* the score of a tile for a goal: Push plus Contains of the item for Pickup,
\* Pull of the item for DropOff, Work of the structure for Work
Score(registry, goal, tile) ==
    CASE goal[1] = "Pickup" ->
             RatAdd(Signals_get(registry, <<"Push", goal[2]>>, tile),
                    Signals_get(registry, <<"Contains", goal[2]>>, tile))
      [] goal[1] = "DropOff" -> Signals_get(registry, <<"Pull", goal[2]>>, tile)
      [] goal[1] = "Work" -> Signals_get(registry, <<"Work", goal[2]>>, tile)

Wander == <<"Wander">>

\* upstream is asked between two stages, of the registry degrade_signals left
Deciding == StageOver

Around(p) == Range(neighbors(p))

\* C5: between stages, for DropOff, Work and Pickup, a tile upstream returns is an empty
\* neighbour of the position, not the position itself and not occupied, and no
\* empty neighbour has a greater score.
UpstreamIsBestEmptyNeighbor ==
    Deciding =>
    \A pos \in TilePos, goal \in Goal \ {Wander} :
        LET choice == upstream(maps, pos, goal, occupied)
        IN  choice # None =>
                /\ choice[1] \in Around(pos)
                /\ choice[1] \notin occupied
                /\ choice[1] # pos
                /\ \A u \in Around(pos) \ occupied :
                       ~RatLess(Score(maps, goal, choice[1]), Score(maps, goal, u))

\* upstream chose between two empty neighbours with different scores above
\* zero, next to an occupied tile that scores more than the loser
UpstreamIsBestEmptyNeighborWitness ==
    Deciding /\
    \E pos \in TilePos, goal \in Goal \ {Wander} :
        LET choice == upstream(maps, pos, goal, occupied)
        IN  /\ choice # None
            /\ \E u \in Around(pos) \ occupied :
                   /\ RatLess(F0, Score(maps, goal, u))
                   /\ RatLess(Score(maps, goal, u), Score(maps, goal, choice[1]))
                   /\ \E o \in Around(pos) \cap occupied :
                          RatLess(Score(maps, goal, u), Score(maps, goal, o))

\* C6: between stages, upstream returns None exactly when the goal is Wander or no empty
\* neighbour has a score above zero.
UpstreamNoneExactly ==
    Deciding =>
    \A pos \in TilePos, goal \in Goal :
        upstream(maps, pos, goal, occupied) = None
            <=> \/ goal = Wander
                \/ \A u \in Around(pos) \ occupied :
                       ~RatLess(F0, Score(maps, goal, u))

\* a goal finds nothing among empty neighbours whose score is a stored zero and
\* that hold another signal; and Wander has a neighbour with signal
UpstreamNoneExactlyWitness ==
    /\ Deciding
    /\ \E pos \in TilePos, goal \in {<<"DropOff", "X">>, <<"Work", "S">>} :
           LET t == <<IF goal[1] = "DropOff" THEN "Pull" ELSE "Work", goal[2]>>
           IN  /\ upstream(maps, pos, goal, occupied) = None
               /\ t \in DOMAIN maps
               /\ \E u \in Around(pos) \ occupied :
                      /\ u \in DOMAIN maps[t]
                      /\ maps[t][u] = ZERO
                      /\ \E t2 \in DOMAIN maps : RatLess(F0, Signals_get(maps, t2, u))
    /\ \E pos \in TilePos : \E u \in Around(pos) \ occupied :
           \E t \in DOMAIN maps : RatLess(F0, Signals_get(maps, t, u))

\* the types Pickup of an item does not follow
OtherTypes(item) == SignalType \ {<<"Push", item>>, <<"Contains", item>>}

\* a registry without the maps of some types
Without(registry, types) == [t \in (DOMAIN registry) \ types |-> registry[t]]

\* a registry with strong signals of some types written on every tile, the
\* stronger the further the tile is from <<0, 0>>
Swamped(registry, types) ==
    [t \in (DOMAIN registry) \cup types |->
        IF t \in types
        THEN [p \in TilePos |->
                 RatAdd(SignalMap_get(IF t \in DOMAIN registry THEN registry[t]
                                      ELSE EmptyMap, p),
                        Rat(10 + p[1] + 2 * p[2], 1))]
        ELSE registry[t]]

\* C7: between stages, for Pickup the score of every tile around the position is its Push
\* strength plus its Contains strength of the item, the tile chosen has the
\* greatest such sum, and the signals of other types (Pull of the item, Work,
\* the signals of other items) do not change the choice, removed or made strong.
PickupAddsPushAndContains ==
    Deciding =>
    \A pos \in TilePos, item \in ItemId :
        LET goal == <<"Pickup", item>>
            choice == upstream(maps, pos, goal, occupied)
        IN  /\ PickupSignals(maps, item, pos) =
                   [tile \in {pos} \cup Around(pos) |->
                       RatAdd(Signals_get(maps, <<"Push", item>>, tile),
                              Signals_get(maps, <<"Contains", item>>, tile))]
            /\ choice # None =>
                   \A u \in Around(pos) \ occupied :
                       ~RatLess(Score(maps, goal, choice[1]), Score(maps, goal, u))
            /\ upstream(Without(maps, OtherTypes(item)), pos, goal, occupied) = choice
            /\ upstream(Swamped(maps, OtherTypes(item)), pos, goal, occupied) = choice

\* the tile chosen for Pickup has less Push than another empty neighbour and
\* wins by its Contains
PickupAddsPushAndContainsWitness ==
    Deciding /\
    \E pos \in TilePos, item \in ItemId :
        LET choice == upstream(maps, pos, <<"Pickup", item>>, occupied)
        IN  /\ choice # None
            /\ \E u \in Around(pos) \ occupied :
                   /\ RatLess(Signals_get(maps, <<"Push", item>>, choice[1]),
                              Signals_get(maps, <<"Push", item>>, u))
                   /\ RatLess(F0, Signals_get(maps, <<"Contains", item>>, choice[1]))
                   /\ RatLess(F0, Signals_get(maps, <<"Push", item>>, choice[1]))

\* the strengths emitters may hold
Strengths == {new(v) : v \in RawValues}

\* the sum of the strengths of type t in a signal list
RECURSIVE ListTotal(_, _)
ListTotal(signals, t) ==
    IF signals = <<>> THEN F0
    ELSE RatAdd(IF Head(signals)[1] = t THEN Head(signals)[2] ELSE F0,
                ListTotal(Tail(signals), t))

\* the sum of the strengths of type t the emitters at tile p hold
RECURSIVE Total(_, _, _)
Total(world, t, p) ==
    IF world = {} THEN F0
    ELSE LET e == CHOOSE x \in world : TRUE
         IN  RatAdd(IF e.tile_pos = p THEN ListTotal(e.signals, t) ELSE F0,
                    Total(world \ {e}, t, p))

\* C8: on the registry a stage left, add_signal of s1 and then of s2 at one
\* type and tile raises get there by s1 + s2 and changes no other strength;
\* emit_signals raises every strength by the sum of what the emitters hold
\* for it.
EmissionAdditive ==
    /\ StageOver =>
       \A t \in SignalType, p \in TilePos, s1 \in Strengths, s2 \in Strengths :
           LET twice == Signals_add_signal(Signals_add_signal(maps, t, p, s1),
                                           t, p, s2)
           IN  /\ Signals_get(twice, t, p) =
                      RatAdd(RatAdd(Signals_get(maps, t, p), s1), s2)
               /\ Without(twice, {t}) = Without(maps, {t})
               /\ DOMAIN twice[t] \ {p} =
                      IF t \in DOMAIN maps THEN DOMAIN maps[t] \ {p} ELSE {}
               /\ \A p2 \in DOMAIN twice[t] \ {p} : twice[t][p2] = maps[t][p2]
    /\ JustRan("emit_signals") =>
           \A t \in SignalType, p \in TilePos :
               Signals_get(maps, t, p) =
                   RatAdd(Signals_get(Last.before, t, p), Total(emitters, t, p))

\* emit_signals added two strengths above zero to a strength above zero
EmissionAdditiveWitness ==
    /\ JustRan("emit_signals")
    /\ \E e \in emitters :
           /\ Len(e.signals) = 2
           /\ e.signals[1][1] = e.signals[2][1]
           /\ e.signals[1][2] # ZERO
           /\ e.signals[2][2] # ZERO
           /\ RatLess(F0, Signals_get(Last.before, e.signals[1][1], e.tile_pos))
           /\ \E p \in TilePos \ {e.tile_pos} :
                  RatLess(F0, Signals_get(maps, e.signals[1][1], p))

\* C9: get of a type and tile no strength was ever inserted for is zero, when
\* the type has no map and when its map has no entry for the tile.
ZeroDefault ==
    \A t \in SignalType, p \in TilePos :
        <<t, p>> \notin written => Signals_get(maps, t, p) = ZERO

\* a type without a map, and a type with a map that lacks a tile, next to a
\* strength above zero
ZeroDefaultWitness ==
    /\ \E t \in SignalType : t \notin DOMAIN maps /\ \A p \in TilePos : <<t, p>> \notin written
    /\ \E t \in DOMAIN maps : \E p \in TilePos :
           /\ p \notin DOMAIN maps[t]
           /\ <<t, p>> \notin written
           /\ \E q \in DOMAIN maps[t] : RatLess(F0, maps[t][q])

RECURSIVE RatPow(_, _)
RatPow(x, n) == IF n = 0 THEN F1 ELSE RatMul(x, RatPow(x, n - 1))

\* n degrade_signals passes in a row
RECURSIVE DegradedTimes(_, _)
DegradedTimes(registry, n) ==
    IF n = 0 THEN registry ELSE DegradedTimes(Degraded(registry), n - 1)

Passes == 0 .. 2

\* C10: n degrade_signals passes in a row turn a strength v into v * 0.9^n,
\* the pass the system ran being the first of them; a pass lowers every
\* strength above zero, keeps zero at zero, yields nothing below zero and keeps
\* the entries of the registry.
DecayGeometric ==
    JustRan("degrade_signals") =>
        /\ DegradedTimes(Last.before, 1) = maps
        /\ \A n \in Passes :
               LET after == DegradedTimes(Last.before, n)
               IN  /\ DOMAIN after = DOMAIN Last.before
                   /\ \A t \in DOMAIN after :
                          /\ DOMAIN after[t] = DOMAIN Last.before[t]
                          /\ \A p \in DOMAIN after[t] :
                                 after[t][p] =
                                     RatMul(Last.before[t][p], RatPow(Rat(9, 10), n))
        /\ \A t \in DOMAIN maps : \A p \in DOMAIN maps[t] :
               LET v == Last.before[t][p]
               IN  /\ v.n > 0 => RatLess(maps[t][p], v)
                   /\ v = ZERO => maps[t][p] = ZERO
                   /\ maps[t][p].n >= 0

\* degrade_signals has run in the last stage over a zero and a strength above
\* zero
DecayGeometricWitness ==
    /\ JustRan("degrade_signals")
    /\ tick = MaxTicks
    /\ \E s \in Stored(Last.before) : s = ZERO
    /\ \E s \in Stored(Last.before) : s.n > 0

\* C11: the snapshot all_signals_at_position returns for a tile holds exactly
\* the types that have a map in the registry, those whose strength at the tile
\* is zero included, each with the strength get returns for it at the tile.
SnapshotHoldsRegistryTypes ==
    \A pos \in TilePos :
        LET local == all_signals_at_position(maps, pos)
        IN  /\ DOMAIN local = DOMAIN maps
            /\ \A t \in DOMAIN maps :
                   /\ local[t] = Signals_get(maps, t, pos)
                   /\ local[t] = IF pos \in DOMAIN maps[t] THEN maps[t][pos]
                                 ELSE ZERO

\* a snapshot of a tile with a type above zero and a type whose map has no
\* entry for the tile, and a snapshot with a type whose entry is zero, while a
\* type has no map
SnapshotHoldsRegistryTypesWitness ==
    /\ DOMAIN maps # SignalType
    /\ \E pos \in TilePos :
           LET local == all_signals_at_position(maps, pos)
           IN  /\ \E t \in DOMAIN local : RatLess(F0, local[t])
               /\ \E t \in DOMAIN local : pos \notin DOMAIN maps[t]
    /\ \E pos \in TilePos :
           LET local == all_signals_at_position(maps, pos)
           IN  \E t \in DOMAIN local : pos \in DOMAIN maps[t] /\ local[t] = ZERO

\* C13: goal_relevant_signals yields of a snapshot exactly its Push, Pull and
\* Work entries, each with the strength the snapshot holds, and no Contains
\* entry.
ContainsExcluded ==
    \A pos \in TilePos :
        LET local == all_signals_at_position(maps, pos)
            yielded == goal_relevant_signals(local)
        IN  /\ yielded =
                   {<<t, local[t]>> :
                       t \in {u \in DOMAIN local : u[1] \in {"Push", "Pull", "Work"}}}
            /\ \A e \in yielded : e[1][1] # "Contains"
            /\ \A t \in DOMAIN local :
                   t[1] # "Contains" => <<t, Signals_get(maps, t, pos)>> \in yielded

\* a snapshot holds a Contains entry and a Pull entry, both above zero, and only
\* the Pull entry is yielded
ContainsExcludedWitness ==
    \E pos \in TilePos :
        LET local == all_signals_at_position(maps, pos)
        IN  /\ DOMAIN local = {<<"Contains", "X">>, <<"Pull", "X">>}
            /\ RatLess(F0, local[<<"Contains", "X">>])
            /\ RatLess(F0, local[<<"Pull", "X">>])
            /\ goal_relevant_signals(local) =
                   {<<<<"Pull", "X">>, local[<<"Pull", "X">>]>>}

\* the types a strength was inserted for
WrittenTypes == {w[1] : w \in written}

\* C12: the registry holds a map for a type exactly when the type has received
\* a write of a strength other than zero.
MapIffWrittenAboveZero ==
    /\ DOMAIN maps = written_above_zero
    /\ \A pos \in TilePos :
           DOMAIN all_signals_at_position(maps, pos) = written_above_zero

\* C12, amended: the registry holds a map for a type exactly when the type has
\* received a write, of zero or of any other strength, and so do the snapshots
\* of all_signals_at_position; a type never written has no map.
MapIffWritten ==
    /\ DOMAIN maps = WrittenTypes
    /\ \A pos \in TilePos :
           DOMAIN all_signals_at_position(maps, pos) = WrittenTypes
    /\ written_above_zero \subseteq DOMAIN maps

\* a type written with zero only has a map, next to a type written with a
\* strength above zero and a type never written
MapIffWrittenWitness ==
    /\ StageOver
    /\ \E t \in DOMAIN maps : t \notin written_above_zero
    /\ \E t \in DOMAIN maps : t \in written_above_zero
    /\ \E t \in SignalType : t \notin DOMAIN maps /\ t \notin WrittenTypes

\* the orders a HashMap may hand out the keys S in
RECURSIVE Orders(_)
Orders(S) ==
    IF S = {} THEN {<<>>}
    ELSE UNION {{<<x>> \o o : o \in Orders(S \ {x})} : x \in S}

\* C14: a diffuse_signals pass stages for every tile a tenth of the strength
\* it held before the pass for each empty neighbour, whatever it receives in
\* the pass, and leaves the same registry for every order over the types and
\* every order over the tiles, in the staging loop and in the commit loop.
DiffusionOrderIndependent ==
    JustRan("diffuse_signals") =>
        /\ \A signal_types \in Orders(DOMAIN Last.before) :
               DiffusedInOrder(Last.before, occupied, signal_types,
                               Keys(TilePos)) = maps
        /\ \A t \in DOMAIN Last.before :
               LET original_map == Last.before[t]
                   additions == pending_additions[t]
                   subtracted == SubtractAll(original_map, additions,
                                             Keys(DOMAIN additions))
               IN  /\ \A p \in DOMAIN original_map :
                          K(p) > 0 =>
                              pending_removals[t][p] = Sent(original_map[p], p)
                   /\ \A p \in DOMAIN additions :
                          additions[p] =
                              Received(original_map, DOMAIN original_map, p)
                   /\ \A tiles \in Orders(DOMAIN original_map) :
                          StageMap([removal_map |-> EmptyMap,
                                    addition_map |-> EmptyMap],
                                   original_map, tiles, occupied)
                              = [removal_map |-> pending_removals[t],
                                 addition_map |-> additions]
                   /\ \A tiles \in Orders(DOMAIN additions) :
                          /\ SubtractAll(original_map, additions, tiles) = subtracted
                          /\ AddAll(subtracted, additions, tiles) = maps[t]

\* a pass over two types and four tiles, in which a tile both sent and received
DiffusionOrderIndependentWitness ==
    /\ JustRan("diffuse_signals")
    /\ Cardinality(DOMAIN Last.before) >= 2
    /\ \E t \in DOMAIN Last.before :
           /\ Cardinality(DOMAIN Last.before[t]) >= 3
           /\ \E p \in DOMAIN Last.before[t] :
                  /\ RatLess(F0, Last.before[t][p])
                  /\ K(p) > 0
                  /\ RatLess(F0, pending_additions[t][p])

RECURSIVE MapTotal(_, _)
MapTotal(map, tiles) ==
    IF tiles = {} THEN F0
    ELSE LET p == CHOOSE x \in tiles : TRUE
         IN  RatAdd(map[p], MapTotal(map, tiles \ {p}))

\* C16: a diffuse_signals pass leaves the sum of the strengths of every type
\* over all tiles as it was before the pass.
DiffusionConserves ==
    JustRan("diffuse_signals") =>
        \A t \in DOMAIN Last.before :
            MapTotal(maps[t], DOMAIN maps[t]) =
                MapTotal(Last.before[t], DOMAIN Last.before[t])

\* C17: in a diffuse_signals pass a tile that is an empty neighbour of no tile
\* of the map, and so every occupied tile, has nothing staged for it and keeps
\* its strength, and a tile of the map stages a tenth of its strength for every
\* empty neighbour it has, occupied neighbours or not.
OccupiedNeverReceive ==
    JustRan("diffuse_signals") =>
        \A t \in DOMAIN Last.before :
            /\ \A p \in TilePos :
                   (p \in occupied
                       \/ \A s \in DOMAIN Last.before[t] : p \notin EmptyAround(s))
                   => /\ p \notin DOMAIN pending_additions[t]
                      /\ SignalMap_get(maps[t], p) =
                             SignalMap_get(Last.before[t], p)
                      /\ p \in DOMAIN maps[t] <=> p \in DOMAIN Last.before[t]
            /\ \A s \in DOMAIN Last.before[t] :
                   \A n \in Around(s) \ occupied :
                       LET amount == RatMul(Last.before[t][s], Tenth)
                       IN  /\ n \in DOMAIN pending_additions[t]
                           /\ ~RatLess(pending_additions[t][n], amount)
                           /\ ~RatLess(maps[t][n], amount)

\* an occupied tile kept its strength next to a tile whose tenth is more, and
\* that tile raised the strength of an empty neighbour
OccupiedNeverReceiveWitness ==
    /\ JustRan("diffuse_signals")
    /\ \E t \in DOMAIN Last.before :
           \E o \in occupied :
               \E s \in (DOMAIN Last.before[t]) \cap Around(o) :
                   /\ RatLess(SignalMap_get(Last.before[t], o),
                              RatMul(Last.before[t][s], Tenth))
                   /\ SignalMap_get(maps[t], o) = SignalMap_get(Last.before[t], o)
                   /\ \E n \in Around(s) \ occupied :
                          RatLess(SignalMap_get(Last.before[t], n), maps[t][n])

\* the lists that hold the entries of a list in another order
Reordered(signals) ==
    {[i \in DOMAIN signals |-> signals[order[i]]] : order \in Orders(DOMAIN signals)}

\* one object for every entry of the list of every object of a query
RECURSIVE OnePerSignal(_)
OnePerSignal(query) ==
    IF query = <<>> THEN <<>>
    ELSE [i \in DOMAIN Head(query).signals |->
             [tile_pos |-> Head(query).tile_pos,
              signals |-> <<Head(query).signals[i]>>]]
         \o OnePerSignal(Tail(query))

\* C18: emit_signals leaves the same registry for every order of the emitters
\* and every order of the entries of an emitter's list, and the registry it
\* would leave if every entry were emitted by an object of its own.
EmissionCommutative ==
    JustRan("emit_signals") =>
        /\ \A query \in Orders(emitters) : EmitAll(Last.before, query) = maps
        /\ LET query == Keys(emitters)
           IN  /\ \A i \in DOMAIN query :
                      \A signals \in Reordered(query[i].signals) :
                          EmitAll(Last.before,
                                  [query EXCEPT ![i].signals = signals]) = maps
               /\ \A singles \in Reordered(OnePerSignal(query)) :
                      EmitAll(Last.before, singles) = maps

\* emit_signals ran over a registry with strengths above zero for an object
\* with two different entries above zero
EmissionCommutativeWitness ==
    /\ JustRan("emit_signals")
    /\ \E e \in emitters :
           /\ Len(e.signals) = 2
           /\ e.signals[1][1] # e.signals[2][1]
           /\ e.signals[1][2] # ZERO
           /\ e.signals[2][2] # ZERO
           /\ RatLess(F0, Signals_get(Last.before, e.signals[1][1], e.tile_pos))

\* C19: between stages, the tile upstream returns is, in the order of
\* empty_neighbors, the first of the empty neighbours with the greatest score:
\* every tile before it scores less and no tile after it scores more.
TiesKeepFirst ==
    Deciding =>
    \A pos \in TilePos, goal \in Goal \ {Wander} :
        LET choice == upstream(maps, pos, goal, occupied)
            possible_tiles == empty_neighbors(pos, occupied)
        IN  choice # None =>
                \E i \in DOMAIN possible_tiles :
                    /\ possible_tiles[i] = choice[1]
                    /\ RatLess(F0, Score(maps, goal, choice[1]))
                    /\ \A j \in DOMAIN possible_tiles :
                           /\ j < i => RatLess(Score(maps, goal, possible_tiles[j]),
                                               Score(maps, goal, choice[1]))
                           /\ j > i => ~RatLess(Score(maps, goal, choice[1]),
                                                Score(maps, goal, possible_tiles[j]))

\* two empty neighbours share the greatest score, above zero, and upstream
\* returned the one that comes first
TiesKeepFirstWitness ==
    Deciding /\
    \E pos \in TilePos, goal \in Goal \ {Wander} :
        LET choice == upstream(maps, pos, goal, occupied)
            possible_tiles == empty_neighbors(pos, occupied)
        IN  /\ choice # None
            /\ \E i \in DOMAIN possible_tiles, j \in DOMAIN possible_tiles :
                   /\ i < j
                   /\ possible_tiles[i] = choice[1]
                   /\ Score(maps, goal, possible_tiles[j]) =
                          Score(maps, goal, choice[1])
                   /\ RatLess(F0, Score(maps, goal, choice[1]))

\* the six tiles around a tile on a map without border
SixAround(p) ==
    [i \in DOMAIN HexDirections |->
        <<p[1] + HexDirections[i][1], p[2] + HexDirections[i][2]>>]

\* what the staging loop removes from a tile holding v that has six empty
\* neighbours
RemovedWithSix(v, p) ==
    SendToNeighbors([removal_map |-> EmptyMap, addition_map |-> EmptyMap],
                    p, Mul(v, DIFFUSION_FRACTION), SixAround(p)).removal_map[p]

\* C20: the removal a diffuse_signals pass stages for a tile is the tile's
\* strength times DIFFUSION_FRACTION times the number of its empty neighbours,
\* and is no more than the strength the tile held before the pass, also for a
\* tile with six empty neighbours.
StagedRemovalWithinStrength ==
    JustRan("diffuse_signals") =>
        \A t \in DOMAIN Last.before : \A p \in DOMAIN Last.before[t] :
            LET v == Last.before[t][p]
                removal == SignalMap_get(pending_removals[t], p)
            IN  /\ removal =
                       RatMul(Rat(K(p), 1), RatMul(v, DIFFUSION_FRACTION))
                /\ ~RatLess(v, removal)
                /\ RemovedWithSix(v, p) =
                       RatMul(Rat(6, 1), RatMul(v, DIFFUSION_FRACTION))
                /\ ~RatLess(v, RemovedWithSix(v, p))

\* a pass staged a removal for a tile with three empty neighbours that held a
\* strength above zero
StagedRemovalWithinStrengthWitness ==
    /\ JustRan("diffuse_signals")
    /\ \E t \in DOMAIN Last.before : \E p \in DOMAIN Last.before[t] :
           /\ K(p) = 3
           /\ RatLess(F0, Last.before[t][p])
           /\ RatLess(F0, pending_removals[t][p])
           /\ RatLess(pending_removals[t][p], Last.before[t][p])

\* the (type, tile) pairs a registry holds an entry for
EntriesOf(registry) ==
    UNION {{<<t, p>> : p \in DOMAIN registry[t]} : t \in DOMAIN registry}

\* C21: no step of emit_signals, diffuse_signals or degrade_signals takes a
\* map or an entry out of the registry, whatever strength the entry holds, and
\* a step of degrade_signals leaves the maps and the entries as they were.
NoEntryRemoved ==
    [][/\ DOMAIN maps \subseteq DOMAIN maps'
       /\ EntriesOf(maps) \subseteq EntriesOf(maps')
       /\ JustRan("degrade_signals")' =>
              /\ DOMAIN maps' = DOMAIN maps
              /\ EntriesOf(maps') = EntriesOf(maps)]_vars

\* after the last stage the registry still holds an entry of zero and an entry
\* below a hundredth, and more entries than the first emit_signals made
NoEntryRemovedWitness ==
    /\ StageOver
    /\ tick = MaxTicks
    /\ \E s \in Stored(maps) : s = ZERO
    /\ \E s \in Stored(maps) : RatLess(F0, s) /\ RatLess(s, Rat(1, 100))
    /\ \E w \in EntriesOf(maps) : w \notin EmittedPairs(emitters)

====
